---- MODULE Spec2Model ----
(***************************************************************************)
(* A model of paddlenlp/experimental/transformers/qwen/modeling.py: the    *)
(* Qwen inference wrapper around the fused multi-layer transformer block.  *)
(*                                                                         *)
(* Python values are records with a "kind" field, so that None, tensors,   *)
(* tuples and raised exceptions can be compared with each other.  The      *)
(* external operators (get_padding_offset, fused_get_rotary_embedding, the *)
(* fused block, the embedding lookup, the RMS norm, lm_head, the           *)
(* criterion) are opaque: a call to one is logged in "calls" with the      *)
(* arguments it was given, and its result is a value that names the call.  *)
(***************************************************************************)
EXTENDS Integers, Sequences, FiniteSets, TLC

VARIABLES
    params,  \* the model's parameters and attributes
    op,      \* the method the last call ran ("idle" between calls)
    args,    \* the arguments of that call
    ret,     \* what it returned or raised
    calls,   \* the external operators it called, in order
    last     \* the call before, where the caller keeps a record of it

vars == <<params, op, args, ret, calls, last>>

----------------------------------------------------------------------------
(* Bounds of the model.                                                    *)

MaxBatch == 2
MaxSeq == 2
MaxPast == 1
MaxZeros == 1
NumLayers == 2

----------------------------------------------------------------------------
(* Python values.                                                          *)

None == [kind |-> "None"]

IsNone(v) == v.kind = "None"

Returned(v) == [kind |-> "return", value |-> v]

Raised(exc, msg) == [kind |-> "raise", exc |-> exc, msg |-> msg]

NoCall == [kind |-> "nocall"]

\* The index tuples of a tensor of the given shape.
Indices(shape) ==
    CASE Len(shape) = 2 -> (0 .. shape[1] - 1) \X (0 .. shape[2] - 1)
      [] Len(shape) = 3 -> (0 .. shape[1] - 1) \X (0 .. shape[2] - 1) \X (0 .. shape[3] - 1)
      [] Len(shape) = 4 -> (0 .. shape[1] - 1) \X (0 .. shape[2] - 1)
                             \X (0 .. shape[3] - 1) \X (0 .. shape[4] - 1)

Tensor(dtype, shape, at) == [kind |-> "tensor", dtype |-> dtype, shape |-> shape, at |-> at]

\* paddle.ones(shape, dtype="bool")
Ones(shape) == Tensor("bool", shape, [ix \in Indices(shape) |-> TRUE])

\* Tensor.astype("bool"): an element is true exactly when it is not zero.
AsBool(t) ==
    IF t.dtype = "bool" THEN t
    ELSE Tensor("bool", t.shape, [ix \in Indices(t.shape) |-> t.at[ix] # 0])

----------------------------------------------------------------------------
(* QWenInferenceModel.get_masks                                            *)

\* paddle.tril(paddle.ones([batch_size, 1, seq_length, seq_length])): the
\* lower triangle, diagonal included.
Tril(batch_size, seq_length) ==
    LET shape == <<batch_size, 1, seq_length, seq_length>>
    IN  Tensor("bool", shape, [ix \in Indices(shape) |-> ix[4] <= ix[3]])

\* paddle.concat([a, b], axis=-1) of two 4-D tensors.
ConcatLast(a, b) ==
    LET shape == <<a.shape[1], a.shape[2], a.shape[3], a.shape[4] + b.shape[4]>>
    IN  Tensor(a.dtype, shape,
               [ix \in Indices(shape) |->
                   IF ix[4] < a.shape[4]
                   THEN a.at[<<ix[1], ix[2], ix[3], ix[4]>>]
                   ELSE b.at[<<ix[1], ix[2], ix[3], ix[4] - a.shape[4]>>]])

\* padding_mask.unsqueeze(axis=[1, 2]).expand(shape) of a 2-D mask.
UnsqueezeExpand2(m, shape) ==
    Tensor(m.dtype, shape, [ix \in Indices(shape) |-> m.at[<<ix[1], ix[4]>>]])

\* padding_mask.unsqueeze(1) of a 3-D mask.
Unsqueeze3(m) ==
    LET shape == <<m.shape[1], 1, m.shape[2], m.shape[3]>>
    IN  Tensor(m.dtype, shape, [ix \in Indices(shape) |-> m.at[<<ix[1], ix[3], ix[4]>>]])

\* a & b of two bool tensors of one shape.
And(a, b) == Tensor("bool", a.shape, [ix \in Indices(a.shape) |-> a.at[ix] /\ b.at[ix]])

\* A causal mask with the past columns appended after the current ones.
CasualMaskPastLast(batch_size, seq_length, past_length) ==
    IF past_length > 0
    THEN ConcatLast(Tril(batch_size, seq_length),
                    Ones(<<batch_size, 1, seq_length, past_length>>))
    ELSE Tril(batch_size, seq_length)

CasualMask(batch_size, seq_length, past_length) ==
    IF past_length > 0
    THEN ConcatLast(Ones(<<batch_size, 1, seq_length, past_length>>),
                    Tril(batch_size, seq_length))
    ELSE Tril(batch_size, seq_length)

PaddingMask(batch_size, seq_length, past_length, padding_mask) ==
    LET full == <<batch_size, 1, seq_length, seq_length + past_length>>
        pm   == IF IsNone(padding_mask) THEN Ones(full) ELSE padding_mask
    IN  CASE Len(pm.shape) = 2 -> AsBool(UnsqueezeExpand2(pm, full))
          [] Len(pm.shape) = 3 -> AsBool(Unsqueeze3(pm))
          [] Len(pm.shape) = 4 -> AsBool(pm)

get_masks(batch_size, seq_length, past_length, padding_mask) ==
    And(CasualMask(batch_size, seq_length, past_length),
        PaddingMask(batch_size, seq_length, past_length, padding_mask))

----------------------------------------------------------------------------
(* The model's parameters, and the state dicts they are loaded from.       *)

Layers == 0 .. NumLayers - 1

\* "prefix.{}.suffix".format(idx)
Format(prefix, idx, suffix) == prefix \o ToString(idx) \o suffix

\* The eight keys set_state_dict reads for a layer, in the order it reads them.
LayerKeys(idx) ==
    << Format("qwen.h.", idx, ".ln_1.weight"),
       Format("qwen.h.", idx, ".attn.c_attn.weight"),
       Format("qwen.h.", idx, ".attn.c_attn.bias"),
       Format("qwen.h.", idx, ".attn.c_proj.weight"),
       Format("qwen.h.", idx, ".ln_2.weight"),
       Format("qwen.h.", idx, ".mlp.w1.weight"),
       Format("qwen.h.", idx, ".mlp.w2.weight"),
       Format("qwen.h.", idx, ".mlp.c_proj.weight") >>

\* The keys of a checkpoint, as listed in the module's docstring.
BaseKeys ==
    {"qwen.wte.weight", "qwen.ln_f.weight"}
        \cup UNION {{LayerKeys(idx)[k] : k \in 1 .. 8} : idx \in Layers}

AllKeys == BaseKeys \cup {"lm_head.weight"}

\* A parameter as created by the constructor: its data are those its
\* initializer gave it, its dtype is its own.
Param(name) ==
    [kind |-> "tensor", dtype |-> name \o ".dtype",
     data |-> <<[ckpt |-> "init", key |-> name]>>]

PyInt(n) == [kind |-> "int", val |-> n]

PyBool(b) == [kind |-> "bool", val |-> b]

\* The configuration of the model: the fields this file reads.  The number of
\* layers is an int.
Config(attentions, hidden_states, use_cache, use_return_dict, parallel_output, degree) ==
    [num_hidden_layers      |-> PyInt(NumLayers),
     output_attentions      |-> attentions,
     output_hidden_states   |-> hidden_states,
     use_cache              |-> use_cache,
     use_return_dict        |-> use_return_dict,
     tensor_parallel_output |-> parallel_output,
     tensor_parallel_degree |-> degree]

PlainConfig == Config(FALSE, FALSE, TRUE, TRUE, TRUE, 1)

\* QWenInferenceModel.__init__ and QWenForCausalLMInferenceModel.__init__
Model(config) ==
    [config         |-> config,
     wte            |-> Param("wte.weight"),
     ln_f           |-> Param("ln_f.weight"),
     lm_head        |-> Param("lm_head.weight"),
     ln_scales      |-> [i \in Layers |-> Param(Format("fuseqwen.", i, ".ln_scale"))],
     qkv_weights    |-> [i \in Layers |-> Param(Format("fuseqwen.", i, ".qkv_weight"))],
     qkv_biases     |-> [i \in Layers |-> Param(Format("fuseqwen.", i, ".qkv_bias"))],
     linear_weights |-> [i \in Layers |-> Param(Format("fuseqwen.", i, ".out_proj_weight"))],
     ffn_ln_scales  |-> [i \in Layers |-> Param(Format("fuseqwen.", i, ".ffn_ln_scale"))],
     ffn1_weights   |-> [i \in Layers |-> Param(Format("fuseqwen.", i, ".ffn1_weight"))],
     ffn2_weights   |-> [i \in Layers |-> Param(Format("fuseqwen.", i, ".ffn2_weight"))],
     cache_kvs      |-> None]

\* The array a checkpoint holds under a key: one column along the last axis,
\* named by the checkpoint and the key.
Array(ckpt, key) ==
    [kind |-> "ndarray", dtype |-> "numpy", data |-> <<[ckpt |-> ckpt, key |-> key]>>]

Checkpoints == {"A", "B"}

\* The state dict of a checkpoint with the given keys.
StateDict(ckpt, keys) == [k \in keys |-> Array(ckpt, k)]

\* paddle.to_tensor(array)
to_tensor(array) == [kind |-> "tensor", dtype |-> array.dtype, data |-> array.data]

\* paddle.to_tensor(array, dtype=dtype)
to_tensor_as(array, dtype) == [kind |-> "tensor", dtype |-> dtype, data |-> array.data]

\* np.concatenate([a, b], axis=-1)
concatenate(a, b) == [kind |-> "ndarray", dtype |-> a.dtype, data |-> a.data \o b.data]

----------------------------------------------------------------------------
(* QWenInferenceModel.set_state_dict and                                   *)
(* QWenForCausalLMInferenceModel.set_state_dict                            *)

\* Tensor.set_value(value): the parameter takes the value's data and keeps
\* its own dtype.
set_value(param, value) == [param EXCEPT !.data = value.data]

\* The first key of the sequence that the state dict lacks ("" when it holds
\* them all): state_dict[key] raises KeyError there.
FirstMissing(state_dict, keys) ==
    IF \A k \in 1 .. Len(keys) : keys[k] \in DOMAIN state_dict
    THEN ""
    ELSE keys[CHOOSE k \in 1 .. Len(keys) :
                 /\ keys[k] \notin DOMAIN state_dict
                 /\ \A j \in 1 .. k - 1 : keys[j] \in DOMAIN state_dict]

\* One layer with the slots of another layer's keys.
SetLayerShifted(p, state_dict, idx) ==
    LET src == LayerKeys((idx + 1) % NumLayers)
    IN  [p EXCEPT
          !.ln_scales[idx]      = set_value(@, to_tensor_as(state_dict[src[1]], @.dtype)),
          !.qkv_weights[idx]    = set_value(@, to_tensor(state_dict[src[2]])),
          !.qkv_biases[idx]     = set_value(@, to_tensor(state_dict[src[3]])),
          !.linear_weights[idx] = set_value(@, to_tensor(state_dict[src[4]])),
          !.ffn_ln_scales[idx]  = set_value(@, to_tensor_as(state_dict[src[5]], @.dtype)),
          !.ffn1_weights[idx]   =
              set_value(@, to_tensor(concatenate(state_dict[src[6]], state_dict[src[7]]))),
          !.ffn2_weights[idx]   = set_value(@, to_tensor(state_dict[src[8]]))]

\* One layer with gate and up concatenated the other way round.
SetLayerGateFirst(p, state_dict, idx) ==
    LET key == LayerKeys(idx)
    IN  [p EXCEPT
          !.ln_scales[idx]      = set_value(@, to_tensor_as(state_dict[key[1]], @.dtype)),
          !.qkv_weights[idx]    = set_value(@, to_tensor(state_dict[key[2]])),
          !.qkv_biases[idx]     = set_value(@, to_tensor(state_dict[key[3]])),
          !.linear_weights[idx] = set_value(@, to_tensor(state_dict[key[4]])),
          !.ffn_ln_scales[idx]  = set_value(@, to_tensor_as(state_dict[key[5]], @.dtype)),
          !.ffn1_weights[idx]   =
              set_value(@, to_tensor(concatenate(state_dict[key[7]], state_dict[key[6]]))),
          !.ffn2_weights[idx]   = set_value(@, to_tensor(state_dict[key[8]]))]

\* The body of the loop over the layers, for a state dict that holds the
\* layer's keys: the eight reads, then the seven assignments.
SetLayer(p, state_dict, idx) ==
    LET key                  == LayerKeys(idx)
        up_weight            == state_dict[key[6]]
        gate_weight          == state_dict[key[7]]
        concated_ffn1_weight == concatenate(up_weight, gate_weight)
    IN  [p EXCEPT
          !.ln_scales[idx]      = set_value(@, to_tensor_as(state_dict[key[1]], @.dtype)),
          !.qkv_weights[idx]    = set_value(@, to_tensor(state_dict[key[2]])),
          !.qkv_biases[idx]     = set_value(@, to_tensor(state_dict[key[3]])),
          !.linear_weights[idx] = set_value(@, to_tensor(state_dict[key[4]])),
          !.ffn_ln_scales[idx]  = set_value(@, to_tensor_as(state_dict[key[5]], @.dtype)),
          !.ffn1_weights[idx]   = set_value(@, to_tensor(concated_ffn1_weight)),
          !.ffn2_weights[idx]   = set_value(@, to_tensor(state_dict[key[8]]))]

\* The loop over the layers from idx on: a layer's reads come before its
\* assignments, so a missing key leaves that layer and the later ones as
\* they were.
RECURSIVE SetLayers(_, _, _)
SetLayers(p, state_dict, idx) ==
    IF idx >= NumLayers
    THEN [params |-> p, ret |-> Returned(None)]
    ELSE LET missing == FirstMissing(state_dict, LayerKeys(idx))
         IN  IF missing # ""
             THEN [params |-> p, ret |-> Raised("KeyError", missing)]
             ELSE SetLayers(SetLayer(p, state_dict, idx), state_dict, idx + 1)

\* QWenInferenceModel.set_state_dict: the parameters it leaves and what it
\* returns or raises.  Line 161 gives set_value the keyword dtype, which
\* line 160 and the loop do not: whether paddle's set_value takes it is not
\* in this file, so takes_dtype is either, and without it the call raises
\* TypeError once the embedding table is written.
QWenSetStateDict(p, state_dict, takes_dtype) ==
    IF "qwen.wte.weight" \notin DOMAIN state_dict
    THEN [params |-> p, ret |-> Raised("KeyError", "qwen.wte.weight")]
    ELSE LET p1 == [p EXCEPT !.wte = set_value(@, to_tensor(state_dict["qwen.wte.weight"]))]
         IN  IF "qwen.ln_f.weight" \notin DOMAIN state_dict
             THEN [params |-> p1, ret |-> Raised("KeyError", "qwen.ln_f.weight")]
             ELSE IF ~takes_dtype
             THEN [params |-> p1,
                   ret |-> Raised("TypeError",
                                  "set_value() got an unexpected keyword argument 'dtype'")]
             ELSE SetLayers(
                      [p1 EXCEPT
                         !.ln_f = set_value(@, to_tensor(state_dict["qwen.ln_f.weight"]))],
                      state_dict, 0)

\* QWenForCausalLMInferenceModel.set_state_dict
LMSetStateDict(p, state_dict, takes_dtype) ==
    LET p1 == IF "lm_head.weight" \in DOMAIN state_dict
              THEN [p EXCEPT !.lm_head = set_value(@, state_dict["lm_head.weight"])]
              ELSE p
    IN  QWenSetStateDict(p1, [k \in DOMAIN state_dict |-> state_dict[k]], takes_dtype)

----------------------------------------------------------------------------
(* The calls: the model is idle, a method runs to its end, and its caller  *)
(* takes the result.                                                       *)

Init ==
    /\ params = Model(PlainConfig)
    /\ op = "idle"
    /\ args = NoCall
    /\ ret = NoCall
    /\ calls = <<>>
    /\ last = NoCall

\* The caller takes the result of the last call.
Return ==
    /\ op # "idle"
    /\ op' = "idle"
    /\ UNCHANGED last
    /\ args' = NoCall
    /\ ret' = NoCall
    /\ calls' = <<>>
    /\ UNCHANGED params

Shapes == (1 .. MaxBatch) \X (1 .. MaxSeq) \X (0 .. MaxPast)

\* The subsets of S of at most k elements.
RECURSIVE AtMost(_, _)
AtMost(S, k) ==
    IF k = 0 THEN {{}}
    ELSE LET smaller == AtMost(S, k - 1)
         IN  smaller \cup {Z \cup {x} : Z \in smaller, x \in S}

\* The mask of a shape that is v everywhere but at the places Z, where it
\* is 0.
MaskOf(shape, v, Z) ==
    Tensor("int64", shape, [ix \in Indices(shape) |-> IF ix \in Z THEN 0 ELSE v])

\* The shapes of the padding masks get_masks is given for a batch:
\* [batch, src], [batch, tgt, src] and [batch, 1, tgt, src].
MaskShapes(b, s, p) == {<<b, s + p>>, <<b, s, s + p>>, <<b, 1, s, s + p>>}

\* What a mask holds where it is not 0: 1 (a tokenizer's mask), or the
\* -10000 of an additive mask.
NonZero == {1, -10000}

GetMasks(batch_size, seq_length, past_length, padding_mask) ==
    /\ op = "idle"
    /\ op' = "get_masks"
    /\ UNCHANGED last
    /\ args' = [batch_size |-> batch_size, seq_length |-> seq_length,
                past_length |-> past_length, padding_mask |-> padding_mask]
    /\ ret' = Returned(get_masks(batch_size, seq_length, past_length, padding_mask))
    /\ calls' = <<>>
    /\ UNCHANGED params

----------------------------------------------------------------------------
(* QWenForCausalLMInferenceModel.get_cache_kvs_shape                       *)

Max(a, b) == IF a >= b THEN a ELSE b

\* The shapes with a max_length of 0 taken for a missing one.
get_cache_kvs_shape_falsy(config, max_batch_size, max_length) ==
    LET length == IF IsNone(max_length) \/ max_length.val = 0
                  THEN config.max_position_embeddings
                  ELSE max_length.val
    IN  [k \in 1 .. config.num_hidden_layers |->
            << 2,
               max_batch_size,
               config.num_attention_heads \div Max(config.tensor_parallel_degree, 1),
               length,
               config.hidden_size \div config.num_attention_heads >>]

get_cache_kvs_shape(config, max_batch_size, max_length) ==
    LET length == IF IsNone(max_length)
                  THEN config.max_position_embeddings
                  ELSE max_length.val
    IN  [k \in 1 .. config.num_hidden_layers |->
            << 2,
               max_batch_size,
               config.num_attention_heads \div Max(config.tensor_parallel_degree, 1),
               length,
               config.hidden_size \div config.num_attention_heads >>]

MaxHeads == 2
MaxHidden == 3
MaxDegree == 2
MaxPositions == 2

\* The configurations get_cache_kvs_shape is called with.
ShapeConfigs ==
    [num_hidden_layers       : 0 .. NumLayers,
     num_attention_heads     : 1 .. MaxHeads,
     tensor_parallel_degree  : -1 .. MaxDegree,
     hidden_size             : 1 .. MaxHidden,
     max_position_embeddings : 1 .. MaxPositions]

GetCacheKvsShape(config, max_batch_size, max_length) ==
    /\ op = "idle"
    /\ op' = "get_cache_kvs_shape"
    /\ UNCHANGED last
    /\ args' = [config |-> config, max_batch_size |-> max_batch_size,
                max_length |-> max_length]
    /\ ret' = Returned(get_cache_kvs_shape(config, max_batch_size, max_length))
    /\ calls' = <<>>
    /\ UNCHANGED params

----------------------------------------------------------------------------
(* QWenInferenceModel.remove_padding                                       *)

\* The k-th result of an external operator.
Out(fn, k) == [kind |-> "out", fn |-> fn, index |-> k]

\* paddle.max(x) of a 1-D tensor
ReduceMax(x) == CHOOSE m \in {x[k] : k \in 1 .. Len(x)} : \A k \in 1 .. Len(x) : x[k] <= m

\* paddle.sum(x) of a 1-D tensor
RECURSIVE ReduceSum(_)
ReduceSum(x) == IF x = <<>> THEN 0 ELSE x[1] + ReduceSum(Tail(x))

\* A cumulative sum that leaves the element itself out.
RECURSIVE cumsum_exclusive(_)
cumsum_exclusive(x) ==
    IF x = <<>> THEN <<>>
    ELSE LET front == SubSeq(x, 1, Len(x) - 1)
         IN  Append(cumsum_exclusive(front), ReduceSum(front))

\* paddle.cumsum(x) of a 1-D tensor
RECURSIVE cumsum(_)
cumsum(x) ==
    IF x = <<>> THEN <<>>
    ELSE LET front == cumsum(SubSeq(x, 1, Len(x) - 1))
         IN  Append(front, (IF front = <<>> THEN 0 ELSE front[Len(front)]) + x[Len(x)])

\* remove_padding: the call to get_padding_offset and the three results,
\* reordered.
remove_padding(input_ids, seq_lens_this_time) ==
    LET top             == ReduceMax(seq_lens_this_time)
        cum_offsets_now == cumsum([k \in 1 .. Len(seq_lens_this_time) |->
                                      top - seq_lens_this_time[k]])
        token_num       == ReduceSum(seq_lens_this_time)
        ids_remove_padding == Out("get_padding_offset", 1)
        cum_offsets        == Out("get_padding_offset", 2)
        padding_offset     == Out("get_padding_offset", 3)
    IN  [calls |-> << [fn |-> "get_padding_offset",
                       input_ids |-> input_ids,
                       cum_offsets_now |-> cum_offsets_now,
                       token_num |-> token_num,
                       seq_lens_this_time |-> seq_lens_this_time] >>,
         value |-> <<ids_remove_padding, padding_offset, cum_offsets>>]

MaxLen == 3

\* input_ids of a batch: the ids are the embedding lookup's business.
Ids(b, s) == [kind |-> "tensor", dtype |-> "int64", shape |-> <<b, s>>, name |-> "input_ids"]

\* The lengths of the sequences of a batch of b.
SeqLens(b) == [1 .. b -> 0 .. MaxLen]

RemovePadding(input_ids, seq_lens_this_time) ==
    /\ op = "idle"
    /\ op' = "remove_padding"
    /\ UNCHANGED last
    /\ args' = [input_ids |-> input_ids, seq_lens_this_time |-> seq_lens_this_time]
    /\ LET r == remove_padding(input_ids, seq_lens_this_time)
       IN  /\ ret' = Returned(r.value)
           /\ calls' = r.calls
    /\ UNCHANGED params

----------------------------------------------------------------------------
(* The helpers, called on their own.                                       *)

NextHelpers ==
    \/ /\ op = "idle"
       /\ \E sh \in Shapes : GetMasks(sh[1], sh[2], sh[3], None)
    \/ /\ op = "idle"
       /\ \E sh \in Shapes : \E shape \in MaskShapes(sh[1], sh[2], sh[3]), v \in NonZero :
              \E Z \in AtMost(Indices(shape), MaxZeros) :
                  GetMasks(sh[1], sh[2], sh[3], MaskOf(shape, v, Z))
    \/ /\ op = "idle"
       /\ \E config \in ShapeConfigs, b \in 1 .. MaxBatch :
              \E max_length \in {None} \cup {PyInt(n) : n \in 0 .. MaxLen} :
                  GetCacheKvsShape(config, b, max_length)
    \/ /\ op = "idle"
       /\ \E b \in 1 .. MaxBatch : \E lens \in SeqLens(b) :
              RemovePadding(Ids(b, MaxLen), lens)
    \/ Return

SpecHelpers == Init /\ [][NextHelpers]_vars

\* Whether a padding mask allows query i of batch row b to see key j.
Allows(padding_mask, b, i, j) ==
    CASE IsNone(padding_mask) -> TRUE
      [] padding_mask.kind = "tensor" /\ Len(padding_mask.shape) = 2 ->
             padding_mask.at[<<b, j>>] # 0
      [] padding_mask.kind = "tensor" /\ Len(padding_mask.shape) = 3 ->
             padding_mask.at[<<b, i, j>>] # 0
      [] padding_mask.kind = "tensor" /\ Len(padding_mask.shape) = 4 ->
             padding_mask.at[<<b, 0, i, j>>] # 0

\* C4: get_masks returns a bool mask of shape [batch_size, 1, seq_length,
\* seq_length + past_length] whose entry [b, 0, i, j] is true exactly when
\* the key is a past one or not later than the query (j < past_length or
\* j - past_length <= i) and the padding mask allows (b, i, j): all of it
\* when the mask is None, [b, j] for every i when it is 2-D, [b, i, j]
\* when it is 3-D.
C4_MaskIsCausalAndPadding ==
    op = "get_masks" =>
        LET m == ret.value
            shape == <<args.batch_size, 1, args.seq_length,
                       args.seq_length + args.past_length>>
        IN  /\ ret.kind = "return"
            /\ m.dtype = "bool"
            /\ m.shape = shape
            /\ DOMAIN m.at = Indices(shape)
            /\ \A ix \in Indices(shape) :
                   m.at[ix] <=>
                       /\ \/ ix[4] < args.past_length
                          \/ ix[4] - args.past_length <= ix[3]
                       /\ Allows(args.padding_mask, ix[1], ix[3], ix[4])

\* C4's case: a 2-D padding mask with a padded key, past keys and more than
\* one query; a past key is visible to every query of an unpadded row, and
\* the last current key is hidden from the first query.
C4_Witness ==
    /\ op = "get_masks"
    /\ args.past_length > 0
    /\ args.seq_length > 1
    /\ args.padding_mask.kind = "tensor"
    /\ Len(args.padding_mask.shape) = 2
    /\ \E ix \in Indices(args.padding_mask.shape) : args.padding_mask.at[ix] = 0
    /\ \E b \in 0 .. args.batch_size - 1 :
           /\ \A i \in 0 .. args.seq_length - 1 : ret.value.at[<<b, 0, i, 0>>]
           /\ ~ret.value.at[<<b, 0, 0, args.past_length + args.seq_length - 1>>]

\* C6: get_cache_kvs_shape returns num_hidden_layers entries, each the shape
\* [2, max_batch_size, heads // max(tensor_parallel_degree, 1), max_length,
\* hidden_size // heads]; a max_length of None stands for
\* max_position_embeddings and a degree of 0 or less for 1.
C6_CacheShapes ==
    op = "get_cache_kvs_shape" =>
        LET c      == args.config
            degree == IF c.tensor_parallel_degree <= 0 THEN 1 ELSE c.tensor_parallel_degree
            length == IF args.max_length = None THEN c.max_position_embeddings
                      ELSE args.max_length.val
        IN  /\ ret.kind = "return"
            /\ Len(ret.value) = c.num_hidden_layers
            /\ \A k \in 1 .. Len(ret.value) :
                   /\ Len(ret.value[k]) = 5
                   /\ ret.value[k][1] = 2
                   /\ ret.value[k][2] = args.max_batch_size
                   /\ ret.value[k][3] * degree <= c.num_attention_heads
                   /\ c.num_attention_heads < (ret.value[k][3] + 1) * degree
                   /\ ret.value[k][4] = length
                   /\ ret.value[k][5] * c.num_attention_heads <= c.hidden_size
                   /\ c.hidden_size < (ret.value[k][5] + 1) * c.num_attention_heads

\* C6's case: several layers, a degree below 1, no max_length and a division
\* that rounds down.
C6_Witness ==
    /\ op = "get_cache_kvs_shape"
    /\ args.config.num_hidden_layers > 1
    /\ args.config.tensor_parallel_degree < 1
    /\ args.max_length = None
    /\ args.config.hidden_size = 3
    /\ args.config.num_attention_heads = 2
    /\ ret.value[2] = <<2, args.max_batch_size, 2, args.config.max_position_embeddings, 1>>

\* The sum of f(k) for k in 1 .. n.
RECURSIVE SumTo(_, _)
SumTo(f, n) == IF n = 0 THEN 0 ELSE SumTo(f, n - 1) + f[n]

\* C10: remove_padding calls get_padding_offset once, with token_num the sum
\* of the lengths and cum_offsets_now[i] the sum over k <= i of (max - len[k]):
\* non-negative, non-decreasing, all zero when every length is the maximum,
\* and token_num + cum_offsets_now[last] = batch_size * max.  The operator's
\* results (ids, cum_offsets, padding_offset) are returned as (ids,
\* padding_offset, cum_offsets).
C10_RemovePadding ==
    op = "remove_padding" =>
        LET lens == args.seq_lens_this_time
            n    == Len(lens)
            top  == CHOOSE m \in 0 .. MaxLen + 1 :
                        (\E k \in 1 .. n : lens[k] = m) /\ (\A k \in 1 .. n : lens[k] <= m)
            gap  == [k \in 1 .. n |-> top - lens[k]]
            c    == calls[1]
        IN  /\ Len(calls) = 1
            /\ c.fn = "get_padding_offset"
            /\ c.input_ids = args.input_ids
            /\ c.seq_lens_this_time = lens
            /\ c.token_num = SumTo(lens, n)
            /\ Len(c.cum_offsets_now) = n
            /\ \A i \in 1 .. n : c.cum_offsets_now[i] = SumTo(gap, i)
            /\ \A i \in 1 .. n : c.cum_offsets_now[i] >= 0
            /\ \A i \in 1 .. n - 1 : c.cum_offsets_now[i] <= c.cum_offsets_now[i + 1]
            /\ (\A k \in 1 .. n : lens[k] = top) => (\A i \in 1 .. n : c.cum_offsets_now[i] = 0)
            /\ c.token_num + c.cum_offsets_now[n] = n * top
            /\ ret = Returned(<< Out("get_padding_offset", 1),
                                 Out("get_padding_offset", 3),
                                 Out("get_padding_offset", 2) >>)

\* C10's case: a batch whose sequences differ in length, the first one
\* shorter than the longest.
C10_Witness ==
    /\ op = "remove_padding"
    /\ Len(args.seq_lens_this_time) > 1
    /\ args.seq_lens_this_time[1] < args.seq_lens_this_time[2]
    /\ calls[1].cum_offsets_now[1] > 0
    /\ calls[1].token_num > 0

----------------------------------------------------------------------------
(* QWenInferenceModel.forward                                              *)

\* paddle.finfo(hidden_states.dtype).min, for float16 hidden states.
FinfoMin == -65504

\* The position offset of a prefill call with pre_caches.
PreCachesLength == 128

HiddenSize == 4

Tuple(items) == [kind |-> "tuple", items |-> items]

\* Whether len(v) is defined: it is for the containers, and raises TypeError
\* for an int.
HasLen(v) == v.kind \in {"tuple", "list", "dict", "str"}

\* x if x is not None else default
OrElse(x, default) == IF IsNone(x) THEN default ELSE x.val

\* What a call leaves: the parameters, the result, and the external
\* operators it called.
Outcome(p, r, c) == [params |-> p, ret |-> r, calls |-> c]

\* paddle.where(mask, zero, neg_inf), cast to the hidden states' dtype.
Where(mask) ==
    Tensor("float16", mask.shape,
           [ix \in Indices(mask.shape) |-> IF mask.at[ix] THEN 0 ELSE FinfoMin])

\* The tuple forward returns when return_dict is false: the values that are
\* not None, in order.
NotNone(values) == SelectSeq(values, LAMBDA v : ~IsNone(v))

\* forward from line 256 on, for a call that gave exactly one of input_ids
\* and inputs_embeds.
ForwardBody(p, a) ==
    LET past_key_values      == a.cache
        is_decoder           == ~IsNone(past_key_values)
        output_attentions    == OrElse(a.output_attentions, p.config.output_attentions)
        output_hidden_states == OrElse(a.output_hidden_states, p.config.output_hidden_states)
        use_cache            == OrElse(a.use_cache, p.config.use_cache)
        return_dict          == OrElse(a.return_dict, p.config.use_return_dict)
        input_shape   == IF ~IsNone(a.input_ids) THEN a.input_ids.shape
                         ELSE SubSeq(a.inputs_embeds.shape, 1, 2)
        inputs_embeds == IF ~IsNone(a.input_ids) THEN a.inputs_embeds
                         ELSE [a.inputs_embeds EXCEPT
                                 !.shape = <<@[1] * @[2], @[3]>>]
    IN  IF IsNone(past_key_values) /\ ~HasLen(p.config.num_hidden_layers)
        THEN \* line 272: len(self.config.num_hidden_layers)
             Outcome(p, Raised("TypeError", "object of type 'int' has no len()"), <<>>)
        ELSE
    LET past_length == IF IsNone(past_key_values) THEN 0 ELSE past_key_values.past_length
        removed     == IF ~is_decoder
                       THEN remove_padding(a.input_ids, a.seq_len_encoder)
                       ELSE [calls |-> <<>>, value |-> <<a.input_ids, None, None>>]
        ids_remove_padding == removed.value[1]
        padding_offset     == removed.value[2]
        cum_offsets        == removed.value[3]
        lookup == IF IsNone(inputs_embeds)
                  THEN << [fn |-> "wte", ids |-> ids_remove_padding, weight |-> p.wte] >>
                  ELSE <<>>
        hidden_states == IF IsNone(inputs_embeds) THEN Out("wte", 1) ELSE inputs_embeds
        bool_mask      == get_masks(input_shape[1], input_shape[2], past_length,
                                    a.attention_mask)
        attention_mask == Where(bool_mask)
        hidden_dim     == IF IsNone(inputs_embeds) THEN HiddenSize
                          ELSE inputs_embeds.shape[Len(inputs_embeds.shape)]
        output_shape   == input_shape \o <<hidden_dim>>
        presents            == IF use_cache THEN Tuple(<<>>) ELSE None
        all_self_attentions == IF output_attentions THEN Tuple(<<>>) ELSE None
        seq_lens        == IF is_decoder THEN a.seq_len_decoder ELSE a.seq_len_encoder
        position_offset == IF ~is_decoder /\ ~IsNone(a.pre_caches)
                           THEN PreCachesLength ELSE 0
        rope  == [fn |-> "fused_get_rotary_embedding",
                  input_ids |-> a.input_ids,
                  position_ids |-> a.position_ids,
                  position_offset |-> position_offset]
        block == [fn |-> "transformer_block",
                  input_ids |-> a.input_ids,
                  hidden_states |-> hidden_states,
                  cum_offsets |-> cum_offsets,
                  padding_offset |-> padding_offset,
                  attn_mask |-> attention_mask,
                  caches |-> a.cache_kvs,
                  pre_caches |-> a.pre_caches,
                  pre_caches_length |-> position_offset,
                  seq_lens |-> seq_lens,
                  rotary_embs |-> Out("fused_get_rotary_embedding", 1),
                  rotary_emb_dims |-> 1,
                  time_step |-> IF is_decoder
                                THEN PyInt(attention_mask.shape[4] - 1)
                                ELSE None]
        norm  == [fn |-> "ln_f", x |-> Out("transformer_block", 1), weight |-> p.ln_f]
        final == [kind |-> "tensor", dtype |-> "float16", shape |-> output_shape,
                  name |-> "ln_f(hidden_states)"]
        all_hidden_states == IF output_hidden_states THEN Tuple(<<final>>) ELSE None
        result == IF ~return_dict
                  THEN Tuple(NotNone(<<final, presents, all_hidden_states,
                                       all_self_attentions>>))
                  ELSE [kind |-> "BaseModelOutputWithPast",
                        last_hidden_state |-> final,
                        past_key_values |-> presents,
                        hidden_states |-> all_hidden_states,
                        attentions |-> all_self_attentions]
    IN  Outcome(p, Returned(result), removed.calls \o lookup \o <<rope, block, norm>>)

BothGiven == "You cannot specify both input_ids and inputs_embeds at the same time"

NeitherGiven == "You have to specify either input_ids or inputs_embeds"

\* forward with the check for both inputs left out.
QWenForwardLenient(p, a) ==
    IF IsNone(a.input_ids) /\ IsNone(a.inputs_embeds)
    THEN Outcome(p, Raised("ValueError", NeitherGiven), <<>>)
    ELSE ForwardBody(p, a)

\* forward keeping the caller's cache_kvs in self.cache_kvs and handing the
\* kept one to the fused block from then on.
QWenForwardCaching(p, a) ==
    LET kept == IF IsNone(p.cache_kvs) THEN a.cache_kvs ELSE p.cache_kvs
    IN  IF ~IsNone(a.input_ids) /\ ~IsNone(a.inputs_embeds)
        THEN Outcome(p, Raised("ValueError", BothGiven), <<>>)
        ELSE IF IsNone(a.input_ids) /\ IsNone(a.inputs_embeds)
        THEN Outcome(p, Raised("ValueError", NeitherGiven), <<>>)
        ELSE LET r == ForwardBody(p, [a EXCEPT !.cache_kvs = kept])
             IN  Outcome([p EXCEPT !.cache_kvs = kept], r.ret, r.calls)

\* QWenInferenceModel.forward: the argument past_key_values is overwritten by
\* the keyword "cache" before it is read.
QWenForward(p, a) ==
    IF ~IsNone(a.input_ids) /\ ~IsNone(a.inputs_embeds)
    THEN Outcome(p, Raised("ValueError", BothGiven), <<>>)
    ELSE IF IsNone(a.input_ids) /\ IsNone(a.inputs_embeds)
    THEN Outcome(p, Raised("ValueError", NeitherGiven), <<>>)
    ELSE ForwardBody(p, a)

----------------------------------------------------------------------------
(* QWenForCausalLMInferenceModel.forward                                   *)

\* outputs[0] of a tuple or of a BaseModelOutputWithPast
First(outputs) ==
    IF outputs.kind = "tuple" THEN outputs.items[1] ELSE outputs.last_hidden_state

\* The result without the base model's outputs after the first.
LMOutputFirstOnly(loss, lm_logits, outputs, return_dict) ==
    IF ~return_dict
    THEN Tuple(IF ~IsNone(loss) THEN <<loss, lm_logits>> ELSE <<lm_logits>>)
    ELSE [kind |-> "CausalLMOutputWithPast",
          loss |-> loss,
          logits |-> lm_logits,
          past_key_values |-> None,
          hidden_states |-> None,
          attentions |-> None]

\* Lines 485 to 495: the tuple or the CausalLMOutputWithPast.
LMOutput(loss, lm_logits, outputs, return_dict) ==
    IF ~return_dict
    THEN LET output == <<lm_logits>> \o Tail(outputs.items)
         IN  Tuple(IF ~IsNone(loss) THEN <<loss>> \o output ELSE output)
    ELSE [kind |-> "CausalLMOutputWithPast",
          loss |-> loss,
          logits |-> lm_logits,
          past_key_values |-> outputs.past_key_values,
          hidden_states |-> outputs.hidden_states,
          attentions |-> outputs.attentions]

\* The arguments self.qwen is called with.
BaseArgs(a, output_attentions, output_hidden_states, return_dict) ==
    [input_ids            |-> a.input_ids,
     position_ids         |-> a.position_ids,
     attention_mask       |-> a.attention_mask,
     inputs_embeds        |-> a.inputs_embeds,
     use_cache            |-> a.use_cache,
     cache                |-> a.cache,
     cache_kvs            |-> a.cache_kvs,
     pre_caches           |-> a.pre_caches,
     seq_len_encoder      |-> a.seq_len_encoder,
     seq_len_decoder      |-> a.seq_len_decoder,
     past_key_values      |-> a.past_key_values,
     output_attentions    |-> PyBool(output_attentions),
     output_hidden_states |-> PyBool(output_hidden_states),
     return_dict          |-> PyBool(return_dict)]

LMForward(p, a) ==
    LET output_attentions    == OrElse(a.output_attentions, p.config.output_attentions)
        output_hidden_states == OrElse(a.output_hidden_states, p.config.output_hidden_states)
        return_dict          == OrElse(a.return_dict, p.config.use_return_dict)
        base == QWenForward(p, BaseArgs(a, output_attentions, output_hidden_states,
                                        return_dict))
    IN  IF base.ret.kind = "raise" THEN base
        ELSE
    LET outputs       == base.ret.value
        hidden_states == First(outputs)
        tensor_parallel_output ==
            /\ p.config.tensor_parallel_output
            /\ ~IsNone(a.labels)
            /\ p.config.tensor_parallel_degree > 1
        head      == [fn |-> "lm_head", hidden_states |-> hidden_states,
                      tensor_parallel_output |-> tensor_parallel_output,
                      weight |-> base.params.lm_head]
        lm_logits == Out("lm_head", 1)
        criterion == IF ~IsNone(a.labels)
                     THEN << [fn |-> "criterion", prediction_scores |-> lm_logits,
                              labels |-> a.labels] >>
                     ELSE <<>>
        loss      == IF ~IsNone(a.labels) THEN Out("criterion", 1) ELSE None
    IN  Outcome(base.params,
                Returned(LMOutput(loss, lm_logits, outputs, return_dict)),
                base.calls \o <<head>> \o criterion)

----------------------------------------------------------------------------
(* QWenForCausalLMInferenceModel.prepare_inputs_for_generation             *)

\* (mask - 1) * 1e4
Additive(mask) ==
    Tensor("float32", mask.shape, [ix \in Indices(mask.shape) |-> (mask.at[ix] - 1) * 10000])

\* The dict of model inputs.
ModelInputs(a, input_ids, inputs_embeds, position_ids, attention_mask) ==
    [kind            |-> "dict",
     input_ids       |-> input_ids,
     inputs_embeds   |-> inputs_embeds,
     position_ids    |-> position_ids,
     attention_mask  |-> attention_mask,
     cache_kvs       |-> a.cache_kvs,
     seq_len_encoder |-> a.seq_len_encoder,
     seq_len_decoder |-> a.seq_len_decoder,
     cache           |-> a.cache,
     pre_caches      |-> a.pre_caches]

\* The decode branch without the reset of inputs_embeds.
prepare_inputs_keeping_embeds(a) ==
    IF ~IsNone(a.cache)
    THEN IF IsNone(a.tgt_generation_mask)
         THEN Raised("TypeError", "unsupported operand type(s) for -: 'NoneType' and 'int'")
         ELSE Returned(ModelInputs(a, a.tgt_ids, a.inputs_embeds, a.tgt_pos,
                                   Additive(a.tgt_generation_mask)))
    ELSE IF IsNone(a.attention_mask)
         THEN Raised("TypeError", "unsupported operand type(s) for -: 'NoneType' and 'int'")
         ELSE Returned(ModelInputs(a, a.input_ids, a.inputs_embeds, a.position_ids,
                                   Additive(a.attention_mask)))

\* prepare_inputs_for_generation: a mask of None cannot be subtracted from.
prepare_inputs_for_generation(a) ==
    IF ~IsNone(a.cache)
    THEN IF IsNone(a.tgt_generation_mask)
         THEN Raised("TypeError", "unsupported operand type(s) for -: 'NoneType' and 'int'")
         ELSE Returned(ModelInputs(a, a.tgt_ids, None, a.tgt_pos,
                                   Additive(a.tgt_generation_mask)))
    ELSE IF IsNone(a.attention_mask)
         THEN Raised("TypeError", "unsupported operand type(s) for -: 'NoneType' and 'int'")
         ELSE Returned(ModelInputs(a, a.input_ids, a.inputs_embeds, a.position_ids,
                                   Additive(a.attention_mask)))

\* self(**model_inputs): the arguments of the causal LM's forward, the ones
\* the dict does not name at their defaults.
CallArgs(m) ==
    [input_ids            |-> m.input_ids,
     position_ids         |-> m.position_ids,
     attention_mask       |-> m.attention_mask,
     inputs_embeds        |-> m.inputs_embeds,
     use_cache            |-> PyBool(FALSE),
     cache                |-> m.cache,
     cache_kvs            |-> m.cache_kvs,
     pre_caches           |-> m.pre_caches,
     seq_len_encoder      |-> m.seq_len_encoder,
     seq_len_decoder      |-> m.seq_len_decoder,
     past_key_values      |-> None,
     labels               |-> None,
     output_attentions    |-> None,
     output_hidden_states |-> None,
     return_dict          |-> None]

\* One generation step: the model inputs are prepared and the model is
\* called with them.  The first entry of the log is the call of forward.
GenerationStep(p, a) ==
    LET prepared == prepare_inputs_for_generation(a)
    IN  IF prepared.kind = "raise" THEN Outcome(p, prepared, <<>>)
        ELSE LET r == LMForward(p, CallArgs(prepared.value))
             IN  Outcome(r.params, r.ret,
                         << [fn |-> "forward", model_inputs |-> prepared.value] >> \o r.calls)

----------------------------------------------------------------------------
(* The calls of forward and the generation steps.                          *)

\* A tensor this file hands on without reading it.
Named(name) == [kind |-> "tensor", name |-> name]

Embeds(b, s) ==
    [kind |-> "tensor", dtype |-> "float16", shape |-> <<b, s, HiddenSize>>,
     name |-> "inputs_embeds"]

\* The keyword "cache" of a decode call: past_length is shape[1] of its first
\* tensor, cache[0][0].
Cache(past_length) == [kind |-> "cache", past_length |-> past_length]

Caches == {None} \cup {Cache(n) : n \in 0 .. MaxPast}

PastOf(cache) == IF IsNone(cache) THEN 0 ELSE cache.past_length

\* The lengths of the batch's sequences: in prefill the encoder's are the
\* prompt's and the decoder's are 0, in decode the other way round.
EncoderLens(b, s, cache) == [k \in 1 .. b |-> IF IsNone(cache) THEN s ELSE 0]

DecoderLens(b, cache) == [k \in 1 .. b |-> IF IsNone(cache) THEN 0 ELSE cache.past_length + 1]

\* The masks a call on a batch of b sequences of s tokens with p past ones
\* may give: none (no shape), or ones with up to MaxZeros zeros, of shape
\* [b, s + p] or [b, 1, s, s + p].
CallMasks(b, s, p) ==
    {[shape |-> <<>>, zeros |-> {}]}
        \cup UNION {{[shape |-> shape, zeros |-> Z] : Z \in AtMost(Indices(shape), MaxZeros)} :
                       shape \in {<<b, s + p>>, <<b, 1, s, s + p>>}}

\* A mask without zeros, or none: what a call gives for the mask of the
\* phase it is not in.
PlainMasks(b, s) == {[shape |-> <<>>, zeros |-> {}], [shape |-> <<b, s>>, zeros |-> {}]}

MakeMask(m) == IF m.shape = <<>> THEN None ELSE MaskOf(m.shape, 1, m.zeros)

\* The arguments of QWenInferenceModel.forward for a batch, the flags at the
\* defaults of the signature.
ForwardArgs(b, s, input_ids, inputs_embeds, cache, attention_mask, pre_caches, pkv) ==
    [input_ids            |-> input_ids,
     position_ids         |-> Named("position_ids"),
     attention_mask       |-> attention_mask,
     inputs_embeds        |-> inputs_embeds,
     use_cache            |-> None,
     cache                |-> cache,
     cache_kvs            |-> Named("cache_kvs"),
     pre_caches           |-> pre_caches,
     seq_len_encoder      |-> EncoderLens(b, s, cache),
     seq_len_decoder      |-> DecoderLens(b, cache),
     past_key_values      |-> pkv,
     output_attentions    |-> PyBool(FALSE),
     output_hidden_states |-> None,
     return_dict          |-> PyBool(FALSE)]

Forward(a) ==
    /\ op = "idle"
    /\ op' = "forward"
    /\ UNCHANGED last
    /\ args' = a
    /\ LET r == QWenForward(params, a)
       IN  /\ params' = r.params
           /\ ret' = r.ret
           /\ calls' = r.calls

CausalLMForward(a) ==
    /\ op = "idle"
    /\ op' = "lm_forward"
    /\ UNCHANGED last
    /\ args' = a
    /\ LET r == LMForward(params, a)
       IN  /\ params' = r.params
           /\ ret' = r.ret
           /\ calls' = r.calls

\* The arguments of prepare_inputs_for_generation for a batch.
PrepareArgs(b, s, cache, inputs_embeds, tgt_ids, attention_mask, tgt_mask, pre_caches) ==
    [input_ids           |-> Ids(b, s),
     cache_kvs           |-> Named("cache_kvs"),
     seq_len_encoder     |-> EncoderLens(b, s, cache),
     seq_len_decoder     |-> DecoderLens(b, cache),
     tgt_ids             |-> tgt_ids,
     tgt_pos             |-> Named("tgt_pos"),
     tgt_generation_mask |-> tgt_mask,
     position_ids        |-> Named("position_ids"),
     attention_mask      |-> attention_mask,
     cache               |-> cache,
     pre_caches          |-> pre_caches,
     inputs_embeds       |-> inputs_embeds]

PrepareInputs(a) ==
    /\ op = "idle"
    /\ op' = "prepare_inputs_for_generation"
    /\ UNCHANGED last
    /\ args' = a
    /\ ret' = prepare_inputs_for_generation(a)
    /\ calls' = <<>>
    /\ UNCHANGED params

Generate(a) ==
    /\ op = "idle"
    /\ op' = "generate"
    /\ UNCHANGED last
    /\ args' = a
    /\ LET r == GenerationStep(params, a)
       IN  /\ params' = r.params
           /\ ret' = r.ret
           /\ calls' = r.calls

\* The ids of the token a decode step feeds: one per sequence.
TgtIds(b) == [Ids(b, 1) EXCEPT !.name = "tgt_ids"]

\* The calls of forward and the generation steps, on batches of every shape.
\* In a generation step the mask of the phase varies, and the other phase's
\* mask is absent or all ones.
NextForward ==
    \/ /\ op = "idle"
       /\ \E b \in 1 .. MaxBatch, s \in 1 .. MaxSeq, cache \in Caches :
              \E input_ids \in {None, Ids(b, s)}, inputs_embeds \in {None, Embeds(b, s)},
                 attention_mask \in CallMasks(b, s, PastOf(cache)),
                 pre_caches \in {None, Named("pre_caches")},
                 past_key_values \in {None, Named("past_key_values")} :
                  Forward(ForwardArgs(b, s, input_ids, inputs_embeds, cache,
                                      MakeMask(attention_mask), pre_caches,
                                      past_key_values))
    \/ /\ op = "idle"
       /\ \E b \in 1 .. MaxBatch, s \in 1 .. MaxSeq, cache \in Caches :
              \E inputs_embeds \in {None, Embeds(b, s)}, tgt_ids \in {None, TgtIds(b)},
                 pre_caches \in {None, Named("pre_caches")},
                 attention_mask \in IF IsNone(cache) THEN CallMasks(b, s, 0)
                                    ELSE PlainMasks(b, s),
                 tgt_generation_mask \in IF IsNone(cache) THEN PlainMasks(b, 1)
                                         ELSE CallMasks(b, 1, cache.past_length) :
                  PrepareInputs(PrepareArgs(b, s, cache, inputs_embeds, tgt_ids,
                                            MakeMask(attention_mask),
                                            MakeMask(tgt_generation_mask), pre_caches))
    \/ /\ op = "idle"
       /\ \E b \in 1 .. MaxBatch, s \in 1 .. MaxSeq, cache \in Caches :
              \E inputs_embeds \in {None, Embeds(b, s)}, tgt_ids \in {None, TgtIds(b)},
                 pre_caches \in {None, Named("pre_caches")},
                 attention_mask \in IF IsNone(cache) THEN CallMasks(b, s, 0)
                                    ELSE PlainMasks(b, s),
                 tgt_generation_mask \in IF IsNone(cache) THEN PlainMasks(b, 1)
                                         ELSE CallMasks(b, 1, cache.past_length) :
                  Generate(PrepareArgs(b, s, cache, inputs_embeds, tgt_ids,
                                       MakeMask(attention_mask),
                                       MakeMask(tgt_generation_mask), pre_caches))
    \/ Return

SpecForward == Init /\ [][NextForward]_vars

----------------------------------------------------------------------------
(* The calls of forward and of the causal LM's forward with every flag, on *)
(* a model of any configuration.                                           *)

Flags == {None, PyBool(TRUE), PyBool(FALSE)}

\* The defaults of the four flags a configuration holds: none set, one set,
\* or all set.
FlagDefaults ==
    {f \in BOOLEAN \X BOOLEAN \X BOOLEAN \X BOOLEAN :
        Cardinality({k \in 1 .. 4 : f[k]}) \in {0, 1, 4}}

Configs ==
    {Config(f[1], f[2], f[3], f[4], parallel_output, degree) :
        f \in FlagDefaults, parallel_output \in BOOLEAN, degree \in 1 .. MaxDegree}

InitFlags ==
    /\ \E config \in Configs : params = Model(config)
    /\ op = "idle"
    /\ args = NoCall
    /\ ret = NoCall
    /\ calls = <<>>
    /\ last = NoCall

NextFlags ==
    \/ /\ op = "idle"
       /\ \E cache \in {None, Cache(MaxPast)},
             use_cache \in Flags, output_attentions \in Flags,
             output_hidden_states \in Flags, return_dict \in Flags :
              Forward([ForwardArgs(1, 1, Ids(1, 1), None, cache, None, None, None)
                         EXCEPT !.use_cache = use_cache,
                                !.output_attentions = output_attentions,
                                !.output_hidden_states = output_hidden_states,
                                !.return_dict = return_dict])
    \/ /\ op = "idle"
       /\ \E cache \in {None, Cache(MaxPast)}, inputs_embeds \in {None, Embeds(1, 1)},
             labels \in {None, Named("labels")},
             use_cache \in Flags, output_attentions \in Flags,
             output_hidden_states \in Flags, return_dict \in Flags :
              CausalLMForward(
                  [ForwardArgs(1, 1, Ids(1, 1), inputs_embeds, cache, None, None, None)
                     EXCEPT !.use_cache = use_cache,
                            !.output_attentions = output_attentions,
                            !.output_hidden_states = output_hidden_states,
                            !.return_dict = return_dict]
                  @@ [labels |-> labels])
    \/ Return

SpecFlags == InitFlags /\ [][NextFlags]_vars

----------------------------------------------------------------------------
(* The loading of weights: state dicts of a checkpoint, whole or with one  *)
(* key missing, loaded one after another, by a paddle whose set_value      *)
(* takes the keyword dtype or does not.                                    *)

SetStateDict(state_dict, takes_dtype) ==
    /\ op = "idle"
    /\ op' = "set_state_dict"
    /\ UNCHANGED last
    /\ args' = [state_dict |-> state_dict]
    /\ LET r == QWenSetStateDict(params, state_dict, takes_dtype)
       IN  /\ params' = r.params
           /\ ret' = r.ret
    /\ calls' = <<>>

CausalLMSetStateDict(state_dict, takes_dtype) ==
    /\ op = "idle"
    /\ op' = "lm_set_state_dict"
    /\ UNCHANGED last
    /\ args' = [state_dict |-> state_dict]
    /\ LET r == LMSetStateDict(params, state_dict, takes_dtype)
       IN  /\ params' = r.params
           /\ ret' = r.ret
    /\ calls' = <<>>

\* The sets of keys a state dict may lack: none, or one.
MissingKeys == {{}} \cup {{k} : k \in AllKeys}

NextLoad ==
    \/ /\ op = "idle"
       /\ \E ckpt \in Checkpoints, missing \in MissingKeys, takes_dtype \in BOOLEAN :
              SetStateDict(StateDict(ckpt, AllKeys \ missing), takes_dtype)
    \/ /\ op = "idle"
       /\ \E ckpt \in Checkpoints, missing \in MissingKeys, takes_dtype \in BOOLEAN :
              CausalLMSetStateDict(StateDict(ckpt, AllKeys \ missing), takes_dtype)
    \/ Return

SpecLoad == Init /\ [][NextLoad]_vars

\* The data of the array a state dict holds under the key of a layer.
LayerData(state_dict, i, name) == state_dict["qwen.h." \o ToString(i) \o "." \o name].data

----------------------------------------------------------------------------
(* The claims about forward, the causal LM's forward and a generation step.*)

\* The places in the log where an operator was called.
CallsOf(log, fn) == {k \in 1 .. Len(log) : log[k].fn = fn}

\* The call passed the check of forward: exactly one of input_ids and
\* inputs_embeds was given.
OneInput(a) == IsNone(a.input_ids) # IsNone(a.inputs_embeds)

\* C1: forward raises ValueError when input_ids and inputs_embeds are both
\* given and when both are absent; no padding removal, embedding lookup,
\* rotary embedding or fused block call has been made, and no parameter of
\* the model has changed.
C1_InvalidInputsRaiseFirst ==
    [][(op' = "forward" /\ ~OneInput(args')) =>
          /\ ret'.kind = "raise"
          /\ ret'.exc = "ValueError"
          /\ ret'.msg = IF IsNone(args'.input_ids)
                        THEN "You have to specify either input_ids or inputs_embeds"
                        ELSE "You cannot specify both input_ids and inputs_embeds at the same time"
          /\ calls' = <<>>
          /\ params' = params]_vars

\* C1's case: a call with both inputs, in decode, has raised ValueError.
C1_Witness ==
    /\ op = "forward"
    /\ ~IsNone(args.input_ids)
    /\ ~IsNone(args.inputs_embeds)
    /\ ~IsNone(args.cache)
    /\ ret.kind = "raise"
    /\ ret.exc = "ValueError"

\* C2: every call of forward that gives exactly one of input_ids and
\* inputs_embeds calls the fused transformer block exactly once, then the
\* final RMS norm, and returns; in prefill (no cache) and in decode.
C2_OneFusedPassPerCall ==
    (op = "forward" /\ OneInput(args)) =>
        /\ ret.kind = "return"
        /\ Cardinality(CallsOf(calls, "transformer_block")) = 1
        /\ Len(calls) >= 2
        /\ calls[Len(calls) - 1].fn = "transformer_block"
        /\ calls[Len(calls)].fn = "ln_f"

\* C2 for the decode calls alone.
DecodeMakesOneFusedPass ==
    (op = "forward" /\ OneInput(args) /\ ~IsNone(args.cache)) =>
        /\ ret.kind = "return"
        /\ Cardinality(CallsOf(calls, "transformer_block")) = 1
        /\ calls[Len(calls) - 1].fn = "transformer_block"
        /\ calls[Len(calls)].fn = "ln_f"

\* Every prefill call that passes the check raises TypeError at line 272,
\* before any operator is called.
PrefillRaisesTypeError ==
    (op = "forward" /\ OneInput(args) /\ IsNone(args.cache)) =>
        /\ ret.kind = "raise"
        /\ ret.exc = "TypeError"
        /\ calls = <<>>

\* What C9 says of a decode call: no padding removal, the decoder's lengths,
\* no position offset, and the time step seq_length + past_length - 1.
DecodePhase(a, log) ==
    /\ CallsOf(log, "get_padding_offset") = {}
    /\ \E k \in CallsOf(log, "transformer_block") :
           /\ log[k].padding_offset = None
           /\ log[k].cum_offsets = None
           /\ log[k].seq_lens = a.seq_len_decoder
           /\ log[k].pre_caches_length = 0
           /\ log[k].time_step =
                  PyInt((IF IsNone(a.input_ids) THEN a.inputs_embeds.shape[2]
                         ELSE a.input_ids.shape[2]) + a.cache.past_length - 1)
    /\ \E k \in CallsOf(log, "fused_get_rotary_embedding") : log[k].position_offset = 0

\* What C9 says of a prefill call: padding removal on (input_ids,
\* seq_len_encoder), the encoder's lengths, no time step, and a position
\* offset of 128 exactly when pre_caches is given.
PrefillPhase(a, log) ==
    LET offset == IF IsNone(a.pre_caches) THEN 0 ELSE 128
    IN  /\ \E k \in CallsOf(log, "get_padding_offset") :
               /\ log[k].input_ids = a.input_ids
               /\ log[k].seq_lens_this_time = a.seq_len_encoder
        /\ \E k \in CallsOf(log, "transformer_block") :
               /\ log[k].seq_lens = a.seq_len_encoder
               /\ log[k].time_step = None
               /\ log[k].pre_caches_length = offset
        /\ \E k \in CallsOf(log, "fused_get_rotary_embedding") :
               log[k].position_offset = offset

\* C9: the phase of forward is decode exactly when the keyword cache is
\* given, whatever past_key_values is; a prefill call runs as PrefillPhase
\* says and a decode call as DecodePhase says.
C9_PhaseByCacheOnly ==
    (op = "forward" /\ OneInput(args)) =>
        IF IsNone(args.cache) THEN PrefillPhase(args, calls) ELSE DecodePhase(args, calls)

\* C9 for the decode calls alone.
DecodeRunsAsDecode ==
    (op = "forward" /\ OneInput(args) /\ ~IsNone(args.cache)) => DecodePhase(args, calls)

\* What the caller's mask says of key j for query i of row b: 1 (attendable)
\* or 0 (padding).
CallerMask(mask, b, i, j) ==
    IF Len(mask.shape) = 2 THEN mask.at[<<b, j>>] ELSE mask.at[<<b, 0, i, j>>]

\* C7: in a generation step a key the caller's mask marks attendable (1), and
\* causality allows, reaches the fused block with additive mask 0, and a
\* key it marks padding (0) with the most negative value.
C7_MaskPolarityKept ==
    (op = "generate" /\ CallsOf(calls, "transformer_block") # {}) =>
        LET block == calls[CHOOSE k \in CallsOf(calls, "transformer_block") : TRUE]
            mask  == IF IsNone(args.cache) THEN args.attention_mask
                     ELSE args.tgt_generation_mask
            past  == PastOf(args.cache)
        IN  \A ix \in Indices(block.attn_mask.shape) :
               LET given  == CallerMask(mask, ix[1], ix[3], ix[4])
                   causal == ix[4] < past \/ ix[4] - past <= ix[3]
               IN  /\ (given = 1 /\ causal) => block.attn_mask.at[ix] = 0
                   /\ given = 0 => block.attn_mask.at[ix] = FinfoMin

\* What the code does instead: the polarity is turned round.  A key marked
\* attendable reaches the block with the most negative value, and a key
\* marked padding with 0 where causality allows.
MaskPolarityInverted ==
    (op = "generate" /\ CallsOf(calls, "transformer_block") # {}) =>
        LET block == calls[CHOOSE k \in CallsOf(calls, "transformer_block") : TRUE]
            mask  == IF IsNone(args.cache) THEN args.attention_mask
                     ELSE args.tgt_generation_mask
            past  == PastOf(args.cache)
        IN  \A ix \in Indices(block.attn_mask.shape) :
               LET given  == CallerMask(mask, ix[1], ix[3], ix[4])
                   causal == ix[4] < past \/ ix[4] - past <= ix[3]
               IN  /\ given = 1 => block.attn_mask.at[ix] = FinfoMin
                   /\ (given = 0 /\ causal) => block.attn_mask.at[ix] = 0

\* C8: prepare_inputs_for_generation switches on the keyword cache alone.
\* With a cache it returns tgt_ids, tgt_pos, (tgt_generation_mask - 1) * 1e4
\* and no inputs_embeds, whatever the caller passed; without, it passes
\* input_ids, position_ids and inputs_embeds through and returns
\* (attention_mask - 1) * 1e4.  cache_kvs, the two lengths, cache and
\* pre_caches are returned as given, and a decode step built by it never
\* trips forward's check for both inputs.
C8_PrepareSwitchesOnCache ==
    /\ (op = "prepare_inputs_for_generation" /\ ret.kind = "return") =>
           LET m    == ret.value
               mask == IF IsNone(args.cache) THEN args.attention_mask
                       ELSE args.tgt_generation_mask
           IN  /\ m.input_ids = IF IsNone(args.cache) THEN args.input_ids ELSE args.tgt_ids
               /\ m.position_ids = IF IsNone(args.cache) THEN args.position_ids
                                   ELSE args.tgt_pos
               /\ m.inputs_embeds = IF IsNone(args.cache) THEN args.inputs_embeds ELSE None
               /\ m.attention_mask.shape = mask.shape
               /\ \A ix \in Indices(mask.shape) :
                      m.attention_mask.at[ix] = (mask.at[ix] - 1) * 10000
               /\ m.cache_kvs = args.cache_kvs
               /\ m.seq_len_encoder = args.seq_len_encoder
               /\ m.seq_len_decoder = args.seq_len_decoder
               /\ m.cache = args.cache
               /\ m.pre_caches = args.pre_caches
    /\ op = "prepare_inputs_for_generation" =>
           (ret.kind = "raise" <=>
               IsNone(IF IsNone(args.cache) THEN args.attention_mask
                      ELSE args.tgt_generation_mask))
    /\ (op = "generate" /\ ~IsNone(args.cache)) =>
           ~(ret.kind = "raise" /\ ret.exc = "ValueError"
                /\ ret.msg = "You cannot specify both input_ids and inputs_embeds at the same time")

\* C8's case: a decode step whose caller passed inputs_embeds went through
\* forward and returned.
C8_Witness ==
    /\ op = "generate"
    /\ ~IsNone(args.cache)
    /\ ~IsNone(args.inputs_embeds)
    /\ ~IsNone(args.tgt_ids)
    /\ ret.kind = "return"
    /\ calls[1].model_inputs.inputs_embeds = None
    /\ calls[1].model_inputs.input_ids = args.tgt_ids

\* What the base model returns to the causal LM's forward for its call.
BaseOutcome ==
    QWenForward(params,
                BaseArgs(args,
                         OrElse(args.output_attentions, params.config.output_attentions),
                         OrElse(args.output_hidden_states, params.config.output_hidden_states),
                         OrElse(args.return_dict, params.config.use_return_dict)))

\* C5: whenever the base model returns, the causal LM's forward passes the
\* base model's first output through lm_head, once, and computes a loss
\* exactly when labels is given.  With return_dict false it returns (loss,
\* logits, rest...) with labels and (logits, rest...) without, rest being
\* the base model's outputs after the first, in order; lm_head is told
\* tensor_parallel_output exactly when the configuration sets it, labels is
\* given and the tensor parallel degree is above 1.
C5_ProjectsAndOptionallyLoses ==
    (op = "lm_forward" /\ BaseOutcome.ret.kind = "return") =>
        LET outputs == BaseOutcome.ret.value
            heads   == CallsOf(calls, "lm_head")
            losses  == CallsOf(calls, "criterion")
            given   == ~IsNone(args.labels)
            rest    == Tail(outputs.items)
        IN  /\ ret.kind = "return"
            /\ Cardinality(heads) = 1
            /\ \A k \in heads :
                   /\ calls[k].hidden_states =
                          (IF outputs.kind = "tuple" THEN outputs.items[1]
                           ELSE outputs.last_hidden_state)
                   /\ calls[k].tensor_parallel_output =
                          (/\ params.config.tensor_parallel_output
                           /\ given
                           /\ params.config.tensor_parallel_degree > 1)
                   /\ \A j \in losses :
                          /\ j > k
                          /\ calls[j].prediction_scores = Out("lm_head", 1)
                          /\ calls[j].labels = args.labels
            /\ Cardinality(losses) = IF given THEN 1 ELSE 0
            /\ ~OrElse(args.return_dict, params.config.use_return_dict) =>
                   /\ ret.value.kind = "tuple"
                   /\ ret.value.items =
                          IF given
                          THEN <<Out("criterion", 1), Out("lm_head", 1)>> \o rest
                          ELSE <<Out("lm_head", 1)>> \o rest

\* C5's case: a call with labels and return_dict false has returned the
\* loss, the logits and three more outputs of the base model.
C5_Witness ==
    /\ op = "lm_forward"
    /\ ~IsNone(args.labels)
    /\ ret.kind = "return"
    /\ ret.value.kind = "tuple"
    /\ Len(ret.value.items) = 5
    /\ ret.value.items[1] = Out("criterion", 1)
    /\ params.config.tensor_parallel_output
    /\ params.config.tensor_parallel_degree > 1
    /\ \E k \in CallsOf(calls, "lm_head") : calls[k].tensor_parallel_output

\* A prefill call of the causal LM's forward never reaches lm_head: the base
\* model raises.
PrefillNeverProjects ==
    (op = "lm_forward" /\ IsNone(args.cache)) =>
        /\ ret.kind = "raise"
        /\ CallsOf(calls, "lm_head") = {}

----------------------------------------------------------------------------
(* Sequences of prefill and decode calls of forward on one model, the      *)
(* caller keeping a record of the call before.                             *)

\* Two handles of a kind: the caller's cache_kvs or pre_caches.
Handles(name) == {Named(name), Named(name \o "_2")}

\* The caller takes the result of a call of forward and keeps the record of
\* the call.
ReturnKept ==
    /\ op = "forward"
    /\ op' = "idle"
    /\ last' = [kind |-> "call", args |-> args, ret |-> ret, calls |-> calls]
    /\ args' = NoCall
    /\ ret' = NoCall
    /\ calls' = <<>>
    /\ UNCHANGED params

NextCalls ==
    \/ /\ op = "idle"
       /\ \E s \in 1 .. MaxSeq, cache \in Caches :
              \E input_ids \in {None, Ids(1, s)},
                 cache_kvs \in Handles("cache_kvs"),
                 pre_caches \in {None} \cup Handles("pre_caches") :
                  Forward([ForwardArgs(1, s, input_ids, None, cache, None, pre_caches, None)
                             EXCEPT !.cache_kvs = cache_kvs])
    \/ ReturnKept

SpecCalls == Init /\ [][NextCalls]_vars

\* The arguments the fused block was called with, in a log.
BlockArgs(log) == {log[k] : k \in CallsOf(log, "transformer_block")}

\* C11: a call of forward, prefill or decode, after any calls before it,
\* leaves the model's cache_kvs attribute None and every parameter as it
\* was; the fused block gets the cache_kvs and pre_caches the caller gave
\* to this call; and a call with the arguments of the call before gives the
\* fused block the same arguments as that one did.
C11_NoStateBetweenCalls ==
    [][op' = "forward" =>
          /\ params' = params
          /\ params'.cache_kvs = None
          /\ \A k \in CallsOf(calls', "transformer_block") :
                 /\ calls'[k].caches = args'.cache_kvs
                 /\ calls'[k].pre_caches = args'.pre_caches
          /\ (last.kind = "call" /\ last.args = args') =>
                 BlockArgs(calls') = BlockArgs(last.calls)]_vars

\* C11's case: a decode call after a decode call with other handles; the
\* fused block has the handles of this call, not the ones of the call
\* before, and the model's attribute is still None.
C11_Witness ==
    /\ op = "forward"
    /\ last.kind = "call"
    /\ BlockArgs(last.calls) # {}
    /\ last.args.cache_kvs # args.cache_kvs
    /\ ~IsNone(last.args.pre_caches)
    /\ ~IsNone(args.pre_caches)
    /\ last.args.pre_caches # args.pre_caches
    /\ \E block \in BlockArgs(calls) :
           /\ block.caches = args.cache_kvs
           /\ block.pre_caches = args.pre_caches
           /\ \A before \in BlockArgs(last.calls) :
                  /\ block.caches # before.caches
                  /\ block.pre_caches # before.pre_caches
    /\ params.cache_kvs = None

----------------------------------------------------------------------------
(* The claims about a load that stops half way.                            *)

\* The seven slots of layer i hold what the state dict names for layer i.
LayerLoaded(p, sd, i) ==
    /\ p.ln_scales[i].data = LayerData(sd, i, "ln_1.weight")
    /\ p.qkv_weights[i].data = LayerData(sd, i, "attn.c_attn.weight")
    /\ p.qkv_biases[i].data = LayerData(sd, i, "attn.c_attn.bias")
    /\ p.linear_weights[i].data = LayerData(sd, i, "attn.c_proj.weight")
    /\ p.ffn_ln_scales[i].data = LayerData(sd, i, "ln_2.weight")
    /\ p.ffn1_weights[i].data =
           LayerData(sd, i, "mlp.w1.weight") \o LayerData(sd, i, "mlp.w2.weight")
    /\ p.ffn2_weights[i].data = LayerData(sd, i, "mlp.c_proj.weight")

\* The seven slots of layer i are in q what they were in p.
LayerKept(p, q, i) ==
    /\ q.ln_scales[i] = p.ln_scales[i]
    /\ q.qkv_weights[i] = p.qkv_weights[i]
    /\ q.qkv_biases[i] = p.qkv_biases[i]
    /\ q.linear_weights[i] = p.linear_weights[i]
    /\ q.ffn_ln_scales[i] = p.ffn_ln_scales[i]
    /\ q.ffn1_weights[i] = p.ffn1_weights[i]
    /\ q.ffn2_weights[i] = p.ffn2_weights[i]

\* The layers of which the state dict lacks a key.
LackingLayers(sd) == {i \in Layers : \E k \in 1 .. 8 : LayerKeys(i)[k] \notin DOMAIN sd}

\* The two keys read before the layers'.
FirstKeys == {"qwen.wte.weight", "qwen.ln_f.weight"}

\* The state dict holds the two keys read before the layers', and lacks a
\* key of some layer: its first missing key belongs to a layer.
StopsInALayer(sd) == FirstKeys \subseteq DOMAIN sd /\ LackingLayers(sd) # {}

\* What C12 says of a load by the causal LM from p to q with the outcome r.
PartialLoad(p, q, r, sd) ==
    /\ StopsInALayer(sd) =>
           LET k == CHOOSE i \in LackingLayers(sd) : \A j \in LackingLayers(sd) : i <= j
           IN  /\ r.kind = "raise"
               /\ "lm_head.weight" \in DOMAIN sd =>
                      q.lm_head.data = sd["lm_head.weight"].data
               /\ q.wte.data = sd["qwen.wte.weight"].data
               /\ q.ln_f.data = sd["qwen.ln_f.weight"].data
               /\ \A i \in Layers : IF i < k THEN LayerLoaded(q, sd, i) ELSE LayerKept(p, q, i)
    /\ "lm_head.weight" \notin DOMAIN sd =>
           /\ q.lm_head = p.lm_head
           /\ BaseKeys \subseteq DOMAIN sd =>
                  /\ r.kind = "return"
                  /\ q.wte.data = sd["qwen.wte.weight"].data
                  /\ q.ln_f.data = sd["qwen.ln_f.weight"].data
                  /\ \A i \in Layers : LayerLoaded(q, sd, i)

\* C12: a load by the causal LM from a state dict whose first missing key
\* belongs to layer k raises after lm_head (where the state dict holds it),
\* the embedding table, the final norm weight and the seven slots of every
\* layer below k are overwritten, and with no slot of layer k or of a later
\* layer written; without "lm_head.weight" lm_head is left as it was and
\* the base model's weights are loaded.
C12_LoadStopsAtFirstMissingLayer ==
    [][op' = "lm_set_state_dict" => PartialLoad(params, params', ret', args'.state_dict)]_vars

\* C12 holds of every load in which set_value takes the keyword dtype of
\* line 161.
PartialLoadWhereDtypeIsTaken ==
    [][(op' = "lm_set_state_dict" /\ ~(ret'.kind = "raise" /\ ret'.exc = "TypeError"))
          => PartialLoad(params, params', ret', args'.state_dict)]_vars

\* Where set_value does not take the keyword, a load from a state dict that
\* holds the first two keys stops at line 161: the embedding table is
\* written, the final norm weight and every layer are as they were.
LoadStopsAtFinalNorm ==
    [][(op' \in {"set_state_dict", "lm_set_state_dict"}
           /\ ret'.kind = "raise" /\ ret'.exc = "TypeError") =>
          /\ FirstKeys \subseteq DOMAIN args'.state_dict
          /\ params'.wte.data = args'.state_dict["qwen.wte.weight"].data
          /\ params'.ln_f = params.ln_f
          /\ \A i \in Layers : LayerKept(params, params', i)]_vars

\* A load by the causal LM that stopped at a missing key of the last layer
\* with the layers below it loaded: over weights of checkpoint A, the slots
\* of layer 0 hold checkpoint B's and the slots of the last layer still A's.
LoadStoppedInLastLayer ==
    /\ op = "lm_set_state_dict"
    /\ ret.kind = "raise"
    /\ ret.exc = "KeyError"
    /\ LackingLayers(args.state_dict) = {NumLayers - 1}
    /\ params.lm_head.data[1].ckpt = "B"
    /\ params.ln_f.data[1].ckpt = "B"
    /\ params.qkv_weights[0].data[1].ckpt = "B"
    /\ params.qkv_weights[NumLayers - 1].data[1].ckpt = "A"

====
